---- MODULE Spec2Model ----
(***************************************************************************)
(* Model of make_map.py: one run of main() over a spreadsheet, the geocode *)
(* cache (in memory and on disk), the Yandex geocoder fallback loop, the   *)
(* map markers and the report of unresolved addresses.                     *)
(*                                                                         *)
(* Text is modelled as a sequence of characters, one element per character *)
(* of the Python string.  Cyrillic letters are written in transliteration  *)
(* (d, o, m, u, l, i, c, a, p, r, s, e, k, t, z, g, b, j, n, y, v; "shch", *)
(* "ya" and "'" stand for the single letters shcha, ya and the soft sign). *)
(***************************************************************************)
EXTENDS FiniteSets, Integers, Sequences, TLC

\* ------------------------------------------------------------------------
\* Bounds
\* ------------------------------------------------------------------------
MaxRows == 2

\* ------------------------------------------------------------------------
\* Python str operations
\* ------------------------------------------------------------------------
SubSeqFrom(s, k) == SubSeq(s, k, Len(s))

StartsWith(s, pat) ==
    /\ Len(pat) <= Len(s)
    /\ SubSeq(s, 1, Len(pat)) = pat

\* str.replace(pat, rep): leftmost non-overlapping occurrences, pat non-empty
RECURSIVE Replace(_, _, _)
Replace(s, pat, rep) ==
    IF s = <<>> THEN <<>>
    ELSE IF StartsWith(s, pat)
         THEN rep \o Replace(SubSeqFrom(s, Len(pat) + 1), pat, rep)
         ELSE <<Head(s)>> \o Replace(Tail(s), pat, rep)

RECURSIVE LStrip(_)
LStrip(s) == IF s # <<>> /\ Head(s) = " " THEN LStrip(Tail(s)) ELSE s

RECURSIVE RStrip(_)
RStrip(s) ==
    IF s # <<>> /\ s[Len(s)] = " " THEN RStrip(SubSeq(s, 1, Len(s) - 1)) ELSE s

\* str.strip()
Strip(s) == RStrip(LStrip(s))

\* sub in s
Contains(s, sub) ==
    \E k \in 1..(Len(s) + 1) : StartsWith(SubSeqFrom(s, k), sub)

\* ------------------------------------------------------------------------
\* normalize_address
\* ------------------------------------------------------------------------
normalize_address(addr) ==
    LET s1  == Replace(addr, <<"d", ".">>, <<"d", "o", "m">>)
        s2  == Replace(s1, <<"d", " ">>, <<"d", "o", "m", " ">>)
        s3  == Replace(s2, <<"u", "l", ".">>, <<"u", "l", "i", "c", "a">>)
        s4  == Replace(s3, <<"u", "l", " ">>, <<"u", "l", "i", "c", "a", " ">>)
        s5  == Replace(s4, <<"p", "r", "-", "t">>,
                       <<"p", "r", "o", "s", "p", "e", "k", "t">>)
        s6  == Replace(s5, <<"p", "r", ".">>, <<"p", "r", "o", "e", "z", "d">>)
        s7  == Replace(s6, <<"p", "e", "r", ".">>,
                       <<"p", "e", "r", "e", "u", "l", "o", "k">>)
        s8  == Replace(s7, <<"p", "l", ".">>,
                       <<"p", "l", "o", "shch", "a", "d", "'">>)
        s9  == Replace(s8, <<"g", ".">>, <<>>)
        s10 == Replace(s9, <<" ", "g", " ">>, <<" ">>)
        s11 == Replace(s10, <<",">>, <<" ">>)
        s12 == Replace(s11, <<" ", " ">>, <<" ">>)
    IN  Strip(s12)

\* ------------------------------------------------------------------------
\* Python values held by the cache: None or {"lat": .., "lon": ..}
\* (the "full_name" text the geocoder adds to a hit is not modelled; nothing
\* in the program reads it back)
\* ------------------------------------------------------------------------
None == [none |-> TRUE, lat |-> 0, lon |-> 0]

Hit(lat, lon) == [none |-> FALSE, lat |-> lat, lon |-> lon]

\* coordinates the geocoder service may answer with
Coords == {Hit(51, 46), Hit(53, 45)}

\* truth value of a cache value: None is falsy, a non-empty dict is truthy
Truthy(v) == ~v.none

\* a dict as a function from keys to values
EmptyDict == [type |-> "dict", d |-> [k \in {} |-> None]]

DictOf(f) == [type |-> "dict", d |-> f]

\* json.loads of "[]": a list, not a dict
EmptyList == [type |-> "list", d |-> [k \in {} |-> None]]

\* dict.get(k): None for an absent key
DictGet(obj, k) == IF k \in DOMAIN obj.d THEN obj.d[k] ELSE None

\* obj[k] = v
DictSet(obj, k, v) ==
    [type |-> "dict",
     d |-> [x \in (DOMAIN obj.d) \cup {k} |-> IF x = k THEN v ELSE obj.d[x]]]

\* ------------------------------------------------------------------------
\* Spreadsheet cells as read by pd.read_excel: text, or NaN for an empty cell
\* ------------------------------------------------------------------------
Text(s) == [nan |-> FALSE, s |-> s]

NaN == [nan |-> TRUE, s |-> <<>>]

\* str(cell): str(float("nan")) is the text "nan"
PyStr(cell) == IF cell.nan THEN <<"n", "a", "n">> ELSE cell.s

\* str(row.get(col, "")).strip()
CellText(cell) == Strip(PyStr(cell))

Row(addr, place, kto) == [addr |-> addr, place |-> place, kto |-> kto]

AddrShort == <<"u", "l", ".", "a">>

AddrLong == <<"u", "l", "i", "c", "a", "a">>

PlaceK == <<"k">>

PlaceA == <<"a">>

default == <<"d", "e", "f", "a", "u", "l", "t">>

Ivanov == <<"i", "v", "a", "n", "o", "v">>

\* the rows an input spreadsheet is drawn from
InputRows ==
    { Row(Text(AddrShort), Text(PlaceK), Text(default)),
      Row(Text(AddrShort), Text(PlaceA), Text(<<" ">>)),
      Row(Text(AddrLong), Text(PlaceK), Text(Ivanov)),
      Row(NaN, Text(PlaceK), Text(<<" ">>)),
      Row(Text(<<" ">>), Text(PlaceK), Text(Ivanov)) }

RECURSIVE SeqsUpTo(_, _)
SeqsUpTo(S, n) ==
    IF n = 0 THEN {<<>>}
    ELSE LET shorter == SeqsUpTo(S, n - 1)
         IN  shorter \cup {Append(q, x) : q \in shorter, x \in S}

InputSheets == SeqsUpTo(InputRows, MaxRows)

\* --regions, split on commas (here one region, "Sar")
regions == << <<"s", "a", "r">> >>

\* ------------------------------------------------------------------------
\* The cache file
\* ------------------------------------------------------------------------
Absent == [kind |-> "absent", value |-> EmptyDict]

Garbage == [kind |-> "garbage", value |-> EmptyDict]

NotUtf8 == [kind |-> "notutf8", value |-> EmptyDict]

Json(obj) == [kind |-> "json", value |-> obj]

\* cache dicts an earlier run can have written
StoredValues == {None, Hit(51, 46)}

StoredDicts ==
    UNION { [K -> StoredValues] : K \in SUBSET {AddrShort} }

InitialFiles ==
    {Absent, Garbage, NotUtf8, Json(EmptyList)} \cup {Json(DictOf(f)) : f \in StoredDicts}

\* load_cache: [raised, value]
load_cache(file) ==
    IF file.kind = "absent" THEN [raised |-> "", value |-> EmptyDict]
    ELSE IF file.kind = "notutf8"
         THEN [raised |-> "UnicodeDecodeError", value |-> EmptyDict]
         ELSE IF file.kind = "garbage"
              THEN [raised |-> "", value |-> EmptyDict]
              ELSE [raised |-> "", value |-> file.value]

\* a save that writes an empty object
save_cache_empty(obj) == Json(EmptyDict)

\* save_cache: json.dumps of the dict, written to a temp file that replaces
\* the cache file
save_cache(obj) == Json(obj)

\* ------------------------------------------------------------------------
\* get_color
\* ------------------------------------------------------------------------
palette ==
    << "red", "blue", "green", "orange", "purple", "darkred", "lightred",
       "beige", "darkblue", "darkgreen", "cadetblue", "darkpurple", "white",
       "pink", "lightblue", "lightgreen", "gray", "black", "lightgray" >>

\* int(md5(name).hexdigest(), 16) % len(palette), tabulated for the group
\* names of InputRows
Md5Mod19(name) ==
    IF name = default THEN 3
    ELSE IF name = Ivanov THEN 15
         ELSE 1

get_color(name) == palette[Md5Mod19(name) + 1]

\* lines 201-206: the colour of every non-empty group of the sheet
RECURSIVE LegendColors(_, _)
LegendColors(sheet, acc) ==
    IF sheet = <<>> THEN acc
    ELSE LET kto == CellText(Head(sheet).kto)
             nxt == IF kto # <<>> /\ kto \notin DOMAIN acc
                    THEN [x \in (DOMAIN acc) \cup {kto} |->
                            IF x = kto
                            THEN get_color(IF kto # <<>> THEN kto ELSE default)
                            ELSE acc[x]]
                    ELSE acc
         IN  LegendColors(Tail(sheet), nxt)

\* lines 236-237: kto_to_color.get(kto or "default", "blue")
MarkerColor(colors, kto) ==
    LET k == IF kto # <<>> THEN kto ELSE default
    IN  IF k \in DOMAIN colors THEN colors[k] ELSE "blue"

\* ------------------------------------------------------------------------
\* geocode: the candidate queries
\* ------------------------------------------------------------------------
Rossiya == <<"r", "o", "s", "s", "i", "ya">>

Oblast == <<" ", "o", "b", "l", "a", "s", "t", "'">>

CommaSp == <<",", " ">>

address_variants(addr, place) ==
    LET addr_norm == normalize_address(addr)
    IN  (IF place # <<>> /\ ~Contains(addr_norm, place)
         THEN <<place \o CommaSp \o addr_norm>>
         ELSE <<>>) \o <<addr_norm, addr>>

\* the two templates of a region in the opposite order
RECURSIVE RegionTriesSwapped(_, _)
RegionTriesSwapped(base, regs) ==
    IF regs = <<>> THEN <<>>
    ELSE << base \o CommaSp \o Head(regs),
            base \o CommaSp \o Head(regs) \o Oblast >>
         \o RegionTriesSwapped(base, Tail(regs))

RECURSIVE RegionTries(_, _)
RegionTries(base, regs) ==
    IF regs = <<>> THEN <<>>
    ELSE << base \o CommaSp \o Head(regs) \o Oblast,
            base \o CommaSp \o Head(regs) >> \o RegionTries(base, Tail(regs))

RECURSIVE TriesOf(_)
TriesOf(variants) ==
    IF variants = <<>> THEN <<>>
    ELSE RegionTries(Head(variants), regions \o <<Rossiya>>)
         \o <<Head(variants)>> \o TriesOf(Tail(variants))

Tries(addr, place) == TriesOf(address_variants(addr, place))

\* the loop of lines 153-157: index of the next query that is sent, from
\* position pos on, skipping empty and already tried ones; 0 when none is left
NextQuery(tries, pos, tried) ==
    LET ok == {k \in pos..Len(tries) :
                 Strip(tries[k]) # <<>> /\ Strip(tries[k]) \notin tried}
    IN  IF ok = {} THEN 0 ELSE CHOOSE k \in ok : \A m \in ok : k <= m

\* ------------------------------------------------------------------------
\* build_map: the per-row decisions
\* ------------------------------------------------------------------------
\* "<pustoj adres>", the text line 212 appends for a row without address
EmptyAddrMark ==
    <<"<", "p", "u", "s", "t", "o", "j", " ", "a", "d", "r", "e", "s", ">">>

\* line 211: not addr
NoAddress(addr) == addr = <<>>

\* line 215: the key of the cache lookup and of the store of line 220
CacheKey(addr, place) == addr

\* lines 216-217: if flush and cached is None: cached = None
ApplyFlush(fl, cached) == IF fl /\ cached = None THEN None ELSE cached

\* a lookup that never takes the cached value
UseCachedNever(cached) == FALSE

\* line 219: cached if cached else geocode(...) takes the cached value
UseCached(cached) == Truthy(cached)

\* line 223: the text reported for an unresolved row
MissText(addr, place) == IF place = <<>> THEN addr ELSE place \o CommaSp \o addr

\* a check that never reports the empty result
NothingResolvedNever(m) == FALSE

\* line 229: not marks
NothingResolved(m) == m = <<>>

\* line 182: except Exception catches what the request and the parsing raise
Swallowed(e) == TRUE

RECURSIVE SumLat(_)
SumLat(m) == IF m = <<>> THEN 0 ELSE Head(m).lat + SumLat(Tail(m))

RECURSIVE SumLon(_)
SumLon(m) == IF m = <<>> THEN 0 ELSE Head(m).lon + SumLon(Tail(m))

\* lines 232-245: centre (sums and count of the mean), markers, legend
RenderedMap(sheet, m, colors) ==
    [center  |-> <<SumLat(m), SumLon(m), Len(m)>>,
     markers |-> [n \in 1..Len(m) |->
                    [lat   |-> m[n].lat,
                     lon   |-> m[n].lon,
                     row   |-> m[n].row,
                     color |-> MarkerColor(colors, CellText(sheet[m[n].row].kto))]],
     legend  |-> {<<name, colors[name]>> :
                    name \in {x \in DOMAIN colors : Strip(x) # <<>>}}]

NoMap == [center |-> <<0, 0, 0>>, markers |-> <<>>, legend |-> {}]

\* a report that loses its first row
ReportRowsTail(bad) == Tail(bad)

\* line 291: the rows of missed_addresses.xlsx
ReportRows(bad) == bad

\* ------------------------------------------------------------------------
\* State
\* ------------------------------------------------------------------------
VARIABLES
    pc,            \* position of main
    df,            \* the sheet read by pd.read_excel
    flush,         \* --flush
    cacheFile,     \* the cache file on disk
    cache,         \* the object load_cache returned
    kto_to_color,  \* group -> colour
    i,             \* index of the row the second loop is at
    misses,        \* unresolved addresses
    marks,         \* resolved points
    call,          \* the geocode call of the current row
    rowlog,        \* history: what happened to each processed row
    fmap,          \* the folium map built by build_map
    htmlFile,      \* the output map file
    missedFile,    \* missed_addresses.xlsx
    raised,        \* exception that ended the run ("" if none)
    file0          \* history: the cache file at startup

vars == << pc, df, flush, cacheFile, cache, kto_to_color, i, misses, marks,
           call, rowlog, fmap, htmlFile, missedFile, raised, file0 >>

Idle == [state |-> "idle", tries |-> <<>>, pos |-> 1, sent |-> <<>>,
         failed |-> {}, feature |-> None, value |-> None]

addr == CellText(df[i].addr)

place == CellText(df[i].place)

Init ==
    /\ pc = "load"
    /\ df \in InputSheets
    /\ flush \in BOOLEAN
    /\ cacheFile \in InitialFiles
    /\ cache = EmptyDict
    /\ kto_to_color = [k \in {} |-> "blue"]
    /\ i = 1
    /\ misses = <<>>
    /\ marks = <<>>
    /\ call = Idle
    /\ rowlog = <<>>
    /\ fmap = NoMap
    /\ htmlFile = [written |-> FALSE, map |-> NoMap]
    /\ missedFile = [written |-> FALSE, rows |-> <<>>]
    /\ raised = ""
    /\ file0 = cacheFile

\* main, line 275: cache = load_cache(cache_file)
LoadCache ==
    /\ pc = "load"
    /\ LET r == load_cache(cacheFile)
       IN  IF r.raised # ""
           THEN /\ pc' = "crashed"
                /\ raised' = r.raised
                /\ cache' = cache
           ELSE /\ pc' = "legend"
                /\ raised' = raised
                /\ cache' = r.value
    /\ UNCHANGED << df, flush, cacheFile, kto_to_color, i, misses, marks, call,
                    rowlog, fmap, htmlFile, missedFile, file0 >>

\* build_map, lines 197-206
BuildLegend ==
    /\ pc = "legend"
    /\ kto_to_color' = LegendColors(df, [k \in {} |-> "blue"])
    /\ i' = 1
    /\ pc' = "rows"
    /\ UNCHANGED << df, flush, cacheFile, cache, misses, marks, call, rowlog,
                    fmap, htmlFile, missedFile, raised, file0 >>

LogRow(entry, before, resolved, newcache) ==
    [row |-> i, key |-> CacheKey(addr, place), entry |-> entry,
     before |-> before, asked |-> FALSE, resolved |-> resolved,
     added |-> (DOMAIN newcache.d) \ (DOMAIN cache.d)]

EntryKind(key) ==
    IF key \notin DOMAIN cache.d THEN "absent"
    ELSE IF cache.d[key] = None THEN "null" ELSE "hit"

\* lines 209-213: a row without address
RowNoAddress ==
    /\ pc = "rows"
    /\ i <= Len(df)
    /\ NoAddress(addr)
    /\ misses' = Append(misses, EmptyAddrMark)
    /\ rowlog' = Append(rowlog, LogRow("noaddr", None, None, cache))
    /\ i' = i + 1
    /\ call' = Idle
    /\ UNCHANGED << pc, df, flush, cacheFile, cache, kto_to_color, marks, fmap,
                    htmlFile, missedFile, raised, file0 >>

\* line 215 on an object that is no dict: AttributeError, not caught by main
RowNoDict ==
    /\ pc = "rows"
    /\ i <= Len(df)
    /\ ~NoAddress(addr)
    /\ cache.type # "dict"
    /\ pc' = "crashed"
    /\ raised' = "AttributeError"
    /\ UNCHANGED << df, flush, cacheFile, cache, kto_to_color, i, misses, marks,
                    call, rowlog, fmap, htmlFile, missedFile, file0 >>

\* lines 215-225 when the cached value is used
RowCached ==
    /\ pc = "rows"
    /\ i <= Len(df)
    /\ ~NoAddress(addr)
    /\ cache.type = "dict"
    /\ LET key    == CacheKey(addr, place)
           cached == ApplyFlush(flush, DictGet(cache, key))
           stored == DictSet(cache, key, cached)
       IN  /\ UseCached(cached)
           /\ cache' = stored
           /\ marks' = Append(marks, [lat |-> cached.lat, lon |-> cached.lon,
                                      row |-> i])
           /\ rowlog' = Append(rowlog,
                               LogRow(EntryKind(key), DictGet(cache, key),
                                      cached, stored))
    /\ i' = i + 1
    /\ call' = Idle
    /\ UNCHANGED << pc, df, flush, cacheFile, kto_to_color, misses, fmap,
                    htmlFile, missedFile, raised, file0 >>

\* lines 215-219 when geocode is called
RowGeocode ==
    /\ pc = "rows"
    /\ i <= Len(df)
    /\ ~NoAddress(addr)
    /\ cache.type = "dict"
    /\ LET key    == CacheKey(addr, place)
           cached == ApplyFlush(flush, DictGet(cache, key))
       IN  /\ ~UseCached(cached)
           /\ rowlog' = Append(rowlog,
                               LogRow(EntryKind(key), DictGet(cache, key),
                                      None, cache))
    /\ call' = [Idle EXCEPT !.state = "running", !.tries = Tries(addr, place)]
    /\ pc' = "geocode"
    /\ UNCHANGED << df, flush, cacheFile, cache, kto_to_color, i, misses, marks,
                    fmap, htmlFile, missedFile, raised, file0 >>

\* ------------------------------------------------------------------------
\* geocode, one request per step
\* ------------------------------------------------------------------------
ToSet(q) == {q[n] : n \in 1..Len(q)}

\* what requests.get, raise_for_status and the parsing of the answer raise
BackendErrors == {"RequestException", "KeyError"}

\* lines 153-157: the next query of the loop over tries
NextIndex == NextQuery(call.tries, call.pos, ToSet(call.sent))

Logged(resolved, newcache) ==
    [rowlog EXCEPT ![Len(rowlog)] =
        [@ EXCEPT !.asked = call.sent # <<>> \/ resolved # None,
                  !.resolved = resolved,
                  !.added = (DOMAIN newcache.d) \ (DOMAIN cache.d)]]

\* lines 165-181, then 220-225: the first feature of the answer is returned,
\* stored and marked
GeocodeHit ==
    /\ pc = "geocode"
    /\ LET k == NextIndex
       IN  /\ k # 0
           /\ \E c \in Coords :
                LET stored == DictSet(cache, CacheKey(addr, place), c)
                IN  /\ call' = [call EXCEPT !.state = "returned",
                                            !.pos = k + 1,
                                            !.sent = Append(@, Strip(call.tries[k])),
                                            !.feature = c,
                                            !.value = c]
                    /\ cache' = stored
                    /\ marks' = Append(marks, [lat |-> c.lat, lon |-> c.lon,
                                               row |-> i])
                    /\ rowlog' = Logged(c, stored)
    /\ i' = i + 1
    /\ pc' = "rows"
    /\ UNCHANGED << df, flush, cacheFile, kto_to_color, misses, fmap, htmlFile,
                    missedFile, raised, file0 >>

\* lines 169-170: no features, next query
GeocodeEmpty ==
    /\ pc = "geocode"
    /\ LET k == NextIndex
       IN  /\ k # 0
           /\ call' = [call EXCEPT !.pos = k + 1,
                                   !.sent = Append(@, Strip(call.tries[k])),
                                   !.failed = @ \cup {Strip(call.tries[k])}]
    /\ rowlog' = [rowlog EXCEPT ![Len(rowlog)].asked = TRUE]
    /\ UNCHANGED << pc, df, flush, cacheFile, cache, kto_to_color, i, misses,
                    marks, fmap, htmlFile, missedFile, raised, file0 >>

\* lines 182-183: the request or the parsing raised
GeocodeError ==
    /\ pc = "geocode"
    /\ LET k == NextIndex
       IN  /\ k # 0
           /\ \E e \in BackendErrors :
                IF Swallowed(e)
                THEN /\ call' = [call EXCEPT
                                    !.pos = k + 1,
                                    !.sent = Append(@, Strip(call.tries[k])),
                                    !.failed = @ \cup {Strip(call.tries[k])}]
                     /\ rowlog' = [rowlog EXCEPT ![Len(rowlog)].asked = TRUE]
                     /\ UNCHANGED << pc, raised >>
                ELSE /\ call' = [call EXCEPT
                                    !.sent = Append(@, Strip(call.tries[k]))]
                     /\ rowlog' = [rowlog EXCEPT ![Len(rowlog)].asked = TRUE]
                     /\ pc' = "crashed"
                     /\ raised' = e
    /\ UNCHANGED << df, flush, cacheFile, cache, kto_to_color, i, misses, marks,
                    fmap, htmlFile, missedFile, file0 >>

\* line 184, then 220-224: no query is left, None is returned and stored
GeocodeNone ==
    /\ pc = "geocode"
    /\ NextIndex = 0
    /\ LET stored == DictSet(cache, CacheKey(addr, place), None)
       IN  /\ cache' = stored
           /\ rowlog' = Logged(None, stored)
    /\ call' = [call EXCEPT !.state = "returned", !.value = None]
    /\ misses' = Append(misses, MissText(addr, place))
    /\ i' = i + 1
    /\ pc' = "rows"
    /\ UNCHANGED << df, flush, cacheFile, kto_to_color, marks, fmap, htmlFile,
                    missedFile, raised, file0 >>

\* ------------------------------------------------------------------------
\* End of build_map and the rest of main
\* ------------------------------------------------------------------------
\* lines 229-230 and 279-281: RuntimeError, printed by main, which returns
NothingResolvedError ==
    /\ pc = "rows"
    /\ i > Len(df)
    /\ NothingResolved(marks)
    /\ raised' = "RuntimeError"
    /\ pc' = "done"
    /\ call' = Idle
    /\ UNCHANGED << df, flush, cacheFile, cache, kto_to_color, i, misses, marks,
                    rowlog, fmap, htmlFile, missedFile, file0 >>

\* lines 232-246: the map; no mark at all is a division by zero
RenderMap ==
    /\ pc = "rows"
    /\ i > Len(df)
    /\ ~NothingResolved(marks)
    /\ IF marks = <<>>
       THEN /\ pc' = "crashed"
            /\ raised' = "ZeroDivisionError"
            /\ fmap' = fmap
       ELSE /\ pc' = "save_cache"
            /\ raised' = raised
            /\ fmap' = RenderedMap(df, marks, kto_to_color)
    /\ call' = Idle
    /\ UNCHANGED << df, flush, cacheFile, cache, kto_to_color, i, misses, marks,
                    rowlog, htmlFile, missedFile, file0 >>

\* line 283
SaveCache ==
    /\ pc = "save_cache"
    /\ cacheFile' = save_cache(cache)
    /\ pc' = "save_map"
    /\ UNCHANGED << df, flush, cache, kto_to_color, i, misses, marks, call,
                    rowlog, fmap, htmlFile, missedFile, raised, file0 >>

\* line 284
SaveMap ==
    /\ pc = "save_map"
    /\ htmlFile' = [written |-> TRUE, map |-> fmap]
    /\ pc' = "report"
    /\ UNCHANGED << df, flush, cacheFile, cache, kto_to_color, i, misses, marks,
                    call, rowlog, fmap, missedFile, raised, file0 >>

\* lines 286-292
ReportMisses ==
    /\ pc = "report"
    /\ misses # <<>>
    /\ missedFile' = [written |-> TRUE, rows |-> ReportRows(misses)]
    /\ pc' = "done"
    /\ UNCHANGED << df, flush, cacheFile, cache, kto_to_color, i, misses, marks,
                    call, rowlog, fmap, htmlFile, raised, file0 >>

\* lines 293-294
ReportAllFound ==
    /\ pc = "report"
    /\ misses = <<>>
    /\ pc' = "done"
    /\ UNCHANGED << df, flush, cacheFile, cache, kto_to_color, i, misses, marks,
                    call, rowlog, fmap, htmlFile, missedFile, raised, file0 >>

Next ==
    \/ LoadCache
    \/ BuildLegend
    \/ RowNoAddress
    \/ RowNoDict
    \/ RowCached
    \/ RowGeocode
    \/ GeocodeHit
    \/ GeocodeEmpty
    \/ GeocodeError
    \/ GeocodeNone
    \/ NothingResolvedError
    \/ RenderMap
    \/ SaveCache
    \/ SaveMap
    \/ ReportMisses
    \/ ReportAllFound

Spec == Init /\ [][Next]_vars

TypeOK ==
    /\ pc \in {"load", "legend", "rows", "geocode", "save_cache", "save_map",
               "report", "done", "crashed"}
    /\ i \in 1..(Len(df) + 1)
    /\ Len(misses) + Len(marks) <= Len(df)

\* ------------------------------------------------------------------------
\* Properties
\* ------------------------------------------------------------------------
Processed == 1..Len(rowlog)

RowAddr(n) == CellText(df[n].addr)

RowPlace(n) == CellText(df[n].place)

RowKto(n) == CellText(df[n].kto)

\* the row is done: not the row a running geocode call belongs to
Settled(n) == n < Len(rowlog) \/ call.state # "running"

MarkOf(n) == {m \in ToSet(marks) : m.row = n}

\* C1: a row whose address has a non-null cache entry when it is processed
\* sends no geocoder request, gets its marker at the cached lat/lon, and the
\* cache entry keeps that value.
C1_CachedEntryUsed ==
    \A n \in Processed :
        rowlog[n].entry = "hit" =>
            /\ ~rowlog[n].asked
            /\ MarkOf(n) = {[lat |-> rowlog[n].before.lat,
                             lon |-> rowlog[n].before.lon, row |-> n]}
            /\ rowlog[n].added = {}
            /\ DictGet(cache, rowlog[n].key) = rowlog[n].before

C1_Witness ==
    /\ pc = "done"
    /\ \E n \in Processed : rowlog[n].entry = "hit" /\ Truthy(rowlog[n].before)

\* C2: without --flush an address cached as None is not sent to the geocoder
\* and its entry is still None after the run.
C2_NullEntryNotRequeried ==
    ~flush =>
        \A n \in Processed :
            rowlog[n].entry = "null" =>
                /\ ~rowlog[n].asked
                /\ pc = "done" => DictGet(cache, rowlog[n].key) = None

\* build_map went through all rows
LoopLeft ==
    \/ pc \in {"save_cache", "save_map", "report", "done"}
    \/ pc = "crashed" /\ raised \notin {"UnicodeDecodeError", "AttributeError"}

NoRowResolved == \A n \in Processed : rowlog[n].resolved = None

\* C3: when build_map has gone through the rows and none resolved, the run
\* ends with the reported RuntimeError and the map file is not written; the
\* map file is written only in runs with a resolved row.
C3_NothingResolvedIsFatal ==
    /\ (LoopLeft /\ NoRowResolved) =>
           /\ pc = "done"
           /\ raised = "RuntimeError"
           /\ ~htmlFile.written
    /\ htmlFile.written => ~NoRowResolved

C3_Witness ==
    /\ pc = "done"
    /\ raised = "RuntimeError"
    /\ Len(df) = MaxRows
    /\ \E n \in Processed : rowlog[n].asked
    /\ \E n \in Processed : rowlog[n].entry = "noaddr"

\* keys the run stored in the in-memory cache (line 220)
WrittenKeys == {rowlog[n].key : n \in {m \in Processed : rowlog[m].entry # "noaddr" /\ Settled(m)}}

InFile(k) ==
    /\ cacheFile.kind = "json"
    /\ cacheFile.value.type = "dict"
    /\ k \in DOMAIN cacheFile.value.d
    /\ cacheFile.value.d[k] = cache.d[k]

\* C4 as stated: at the end of every run, fatal or not, every entry the run
\* wrote to the in-memory cache is in the cache file with the same value.
C4_FlushedAtEveryExit ==
    pc = "done" => \A k \in WrittenKeys : InFile(k)

\* C4 as amended: a run that ends normally leaves every entry it wrote to the
\* in-memory cache in the cache file; a run that ends with the fatal error
\* leaves the cache file as it was at startup.
C4_FlushedOnNormalExit ==
    pc = "done" =>
        IF raised = ""
        THEN \A k \in WrittenKeys : InFile(k)
        ELSE cacheFile = file0

C4_Witness ==
    /\ pc = "done"
    /\ raised = ""
    /\ \E n \in Processed : rowlog[n].asked /\ rowlog[n].added # {}
    /\ cacheFile # file0

Unresolved == {n \in Processed : Settled(n) /\ rowlog[n].resolved = None}

\* C5 as stated: every run with an unresolved address ends with the
\* unresolved addresses in missed_addresses.xlsx, one per unresolved row.
C5_MissesAlwaysReported ==
    (pc = "done" /\ Unresolved # {}) =>
        /\ missedFile.written
        /\ missedFile.rows = misses
        /\ Len(missedFile.rows) = Cardinality(Unresolved)

\* C5 as amended: a run with an unresolved and a resolved address ends with
\* the unresolved addresses in missed_addresses.xlsx, one per unresolved row;
\* a run in which no address resolved does not write the spreadsheet.
C5_MissesReportedWithMap ==
    pc = "done" =>
        /\ (Unresolved # {} /\ ~NoRowResolved) =>
               /\ missedFile.written
               /\ missedFile.rows = misses
               /\ Len(missedFile.rows) = Cardinality(Unresolved)
        /\ NoRowResolved => ~missedFile.written

C5_Witness ==
    /\ pc = "done"
    /\ missedFile.written
    /\ Len(missedFile.rows) = 1
    /\ Len(marks) = 1

\* the address cell holds nothing: empty in the sheet or blank text
EmptyCell(cell) == cell.nan \/ Strip(cell.s) = <<>>

\* C6: every row gives exactly one marker or one unresolved entry; a row
\* with an empty address cell gives the placeholder, no request and no
\* cache entry.
C6_RowsPartitioned ==
    /\ LoopLeft => Len(marks) + Len(misses) = Len(df)
    /\ \A n \in Processed :
           Settled(n) =>
               /\ Cardinality(MarkOf(n)) = (IF rowlog[n].resolved = None THEN 0 ELSE 1)
               /\ EmptyCell(df[n].addr) =>
                      /\ rowlog[n].entry = "noaddr"
                      /\ ~rowlog[n].asked
                      /\ rowlog[n].added = {}
    /\ LoopLeft =>
           \A n \in Processed :
               EmptyCell(df[n].addr) =>
                   \E j \in 1..Len(misses) :
                       /\ misses[j] = EmptyAddrMark
                       /\ j = Cardinality({m \in 1..n : rowlog[m].resolved = None})

\* the query geocode forms from the normalized address and the locality
CanonicalQuery(n) == Head(address_variants(RowAddr(n), RowPlace(n)))

\* C7: the cache key of a row is its normalized query, made of address and
\* locality; two rows share an entry iff their normalized queries are equal.
C7_KeyIsNormalizedQuery ==
    \A m, n \in {x \in Processed : rowlog[x].entry # "noaddr"} :
        /\ rowlog[n].key = CanonicalQuery(n)
        /\ (rowlog[m].key = rowlog[n].key) <=> (CanonicalQuery(m) = CanonicalQuery(n))

\* the row the geocode call in `call` was made for
CallRow == Len(rowlog)

\* the candidate queries in the order of the claim: per base (locality with
\* normalized address, normalized address, raw address) every region with and
\* without the "oblast'" word, then Rossiya likewise, then the bare base
CandidateAt(bases, k) ==
    LET sufs == regions \o <<Rossiya>>
        per  == 2 * Len(sufs) + 1
        base == bases[((k - 1) \div per) + 1]
        j    == (k - 1) % per
    IN  IF j = per - 1 THEN base
        ELSE IF j % 2 = 0
             THEN base \o CommaSp \o sufs[(j \div 2) + 1] \o Oblast
             ELSE base \o CommaSp \o sufs[(j \div 2) + 1]

Candidates(r) ==
    LET a     == CellText(r.addr)
        p     == CellText(r.place)
        norm  == normalize_address(a)
        bases == IF p # <<>> /\ ~Contains(norm, p)
                 THEN <<p \o CommaSp \o norm, norm, a>>
                 ELSE <<norm, a>>
        per   == 2 * (Len(regions) + 1) + 1
    IN  [k \in 1..(Len(bases) * per) |-> Strip(CandidateAt(bases, k))]

\* the distinct non-empty candidates, each at its first place
RECURSIVE Distinct(_, _)
Distinct(q, seen) ==
    IF q = <<>> THEN <<>>
    ELSE IF Head(q) = <<>> \/ Head(q) \in seen
         THEN Distinct(Tail(q), seen)
         ELSE <<Head(q)>> \o Distinct(Tail(q), seen \cup {Head(q)})

\* per input row, the queries a geocode call for it may send, in order
ExpectedQueries == [r \in InputRows |-> Distinct(Candidates(r), {})]

IsPrefix(a, b) == Len(a) <= Len(b) /\ SubSeq(b, 1, Len(a)) = a

\* C8: the queries of a geocode call go out in the fixed candidate order; a
\* failed query is followed by the next one; the call returns the feature of
\* the first query that yields one and sends nothing after it; it returns
\* None iff every distinct non-empty candidate failed; no backend exception
\* leaves geocode.
C8_FallbackOrder ==
    /\ call.state # "idle" =>
           LET expected == ExpectedQueries[df[CallRow]]
               n        == Len(call.sent)
           IN  /\ IsPrefix(call.sent, expected)
               /\ call.state = "running" =>
                      /\ call.feature = None
                      /\ call.failed = ToSet(call.sent)
               /\ (call.state = "returned" /\ call.value # None) =>
                      /\ n >= 1
                      /\ call.value = call.feature
                      /\ call.failed = ToSet(SubSeq(call.sent, 1, n - 1))
                      /\ call.sent[n] \notin call.failed
                      /\ MarkOf(CallRow) = {[lat |-> call.value.lat,
                                             lon |-> call.value.lon,
                                             row |-> CallRow]}
               /\ call.state = "returned" =>
                      ((call.value = None) <=> (call.failed = ToSet(expected)))
               /\ (call.state = "returned" /\ call.value = None) =>
                      call.sent = expected
    /\ raised \notin BackendErrors

C8_Witness ==
    /\ call.state = "returned"
    /\ call.value # None
    /\ Len(call.sent) = 8
    /\ Cardinality(call.failed) = 7

\* the file holds a JSON object of cache entries
WellFormedCache(file) == file.kind = "json" /\ file.value.type = "dict"

\* C9: a missing or malformed cache file is loaded as the empty cache without
\* an exception and the run goes on as with an empty cache; a well-formed one
\* is loaded as stored.
C9_BrokenCacheStartsEmpty ==
    /\ pc = "legend" =>
           cache = (IF WellFormedCache(file0) THEN file0.value ELSE EmptyDict)
    /\ raised \notin {"UnicodeDecodeError", "AttributeError"}

\* the colour build_map gives a record of group kto in a sheet of its own
SoloColor(kto) ==
    MarkerColor(LegendColors(<<Row(Text(AddrLong), Text(PlaceK), Text(kto))>>,
                             [k \in {} |-> "blue"]),
                kto)

\* C10: the colour of a marker depends on the group of its record only,
\* whatever other rows the sheet has, and the legend pairs every group with
\* the colour of its markers.
C10_ColorByGroupOnly ==
    \A n \in 1..Len(fmap.markers) :
        LET mk == fmap.markers[n]
        IN  /\ mk.color = SoloColor(RowKto(mk.row))
            /\ \A e \in fmap.legend : e[1] = RowKto(mk.row) => e[2] = mk.color

====
